---------------------------- MODULE Spec2Model ----------------------------
(***************************************************************************)
(* Model of src/Dashboardd.py: a Streamlit script that loads an order      *)
(* table, filters it by the date range of a sidebar picker, computes six   *)
(* aggregate tables and renders them.  Streamlit re-executes the whole     *)
(* script, top to bottom, on every change of the picker's value; one       *)
(* action of the model is one such change together with the script run it  *)
(* triggers.                                                               *)
(*                                                                         *)
(* A timestamp (pandas Timestamp) is a record [day, tod]: the calendar day *)
(* and the time of day (0 is midnight).  A date (datetime.date, what the   *)
(* picker returns and what .dt.date yields) is the day number alone.       *)
(* A table (DataFrame) is a sequence of row records.  delivery_date is     *)
(* parsed by the script and never read again, so rows do not carry it.     *)
(***************************************************************************)
EXTENDS Integers, Sequences, FiniteSets

VARIABLES all_df, picker, status, start_date, end_date, main_df,
          daily_orders_df, sum_order_items_df, bygender_df, byage_df,
          bystate_df, rfm_df, total_orders

vars == <<all_df, picker, status, start_date, end_date, main_df,
          daily_orders_df, sum_order_items_df, bygender_df, byage_df,
          bystate_df, rfm_df, total_orders>>

(* ------------------------------ bounds -------------------------------- *)

\* Largest number of rows of the loaded table.
MaxRows == 3

\* Calendar days are 1..MaxDay.
MaxDay == 3

(* --------------------------- input domains ---------------------------- *)

Days == 1..MaxDay

\* Times of day: 0 is midnight, 1 is any later time of that day.
Tods == {0, 1}

Timestamps == [day : Days, tod : Tods]

Midnights == [day : Days, tod : {0}]

OrderIds == {1, 2}

CustomerIds == {1, 2}

Prices == {10, 20}

Quantities == {1, 2}

\* String keys in the order pandas' groupby sorts them (lexicographic).
ProductNames == <<"Hoodie", "Shirt", "Trousers">>

GenderNames == <<"Female", "Male">>

AgeGroupNames == <<"Adults", "Seniors", "Youth">>

StateNames == <<"NSW", "VIC">>

(* ------------------------------ helpers ------------------------------- *)

Range(s) == {s[i] : i \in DOMAIN s}

RECURSIVE Sum(_)
Sum(s) == IF s = <<>> THEN 0 ELSE Head(s) + Sum(Tail(s))

SetMin(S) == CHOOSE x \in S : \A y \in S : x <= y

SetMax(S) == CHOOSE x \in S : \A y \in S : x >= y

\* The elements of a set of integers as an ascending sequence.
RECURSIVE Ascending(_)
Ascending(S) ==
    IF S = {} THEN <<>> ELSE <<SetMin(S)>> \o Ascending(S \ {SetMin(S)})

\* The elements of S in the order the sequence `order` lists them.
KeysIn(order, S) ==
    LET Keep(k) == k \in S IN SelectSeq(order, Keep)

TsLE(a, b) == a.day < b.day \/ (a.day = b.day /\ a.tod <= b.tod)

\* pd.to_datetime(date): midnight of that day.
to_datetime(d) == [day |-> d, tod |-> 0]

\* Timestamp.date() / .dt.date: the calendar day.
DateOf(ts) == ts.day

\* Series.max() of the order_date column of a non-empty table.
MaxTs(df) ==
    CHOOSE t \in {r.order_date : r \in Range(df)} :
        \A r \in Range(df) : TsLE(r.order_date, t)

MinTs(df) ==
    CHOOSE t \in {r.order_date : r \in Range(df)} :
        \A r \in Range(df) : TsLE(t, r.order_date)


(* ------------------------------ Loader -------------------------------- *)

\* sort_values(by="order_date"): the loaded table is ascending in order_date.
IsSortedByDate(df) ==
    \A i \in 1..(Len(df) - 1) : TsLE(df[i].order_date, df[i + 1].order_date)

\* df is a table read_csv, to_datetime, sort_values and reset_index can
\* produce from a file of 1..MaxRows rows drawn from the row set R.
Loaded(df, R) ==
    /\ \E n \in 1..MaxRows : df \in [1..n -> R]
    /\ IsSortedByDate(df)

min_date(df) == MinTs(df)

max_date(df) == MaxTs(df)

(* ------------------------------ Filter -------------------------------- *)

\* all_df[(order_date >= to_datetime(start)) & (order_date <= to_datetime(end))]
Filter(df, start, end) ==
    LET InRange(r) == /\ TsLE(to_datetime(start), r.order_date)
                      /\ TsLE(r.order_date, to_datetime(end))
    IN  SelectSeq(df, InRange)

(* ---------------------------- Aggregators ----------------------------- *)

RowsOnDay(df, d) ==
    LET OnDay(r) == DateOf(r.order_date) = d IN SelectSeq(df, OnDay)

\* Mutant of create_daily_orders_df: groupby on the calendar day instead of
\* resample, which yields a row only for the days that have an order.
create_daily_orders_df_groupby(df) ==
    LET days == Ascending({DateOf(r.order_date) : r \in Range(df)})
    IN  [i \in DOMAIN days |->
            LET bin == RowsOnDay(df, days[i])
            IN  [order_date  |-> to_datetime(days[i]),
                 order_count |-> Cardinality({r.order_id : r \in Range(bin)}),
                 revenue     |-> Sum([k \in DOMAIN bin |-> bin[k].total_price])]]

\* resample(rule='D', on='order_date'): one bin per calendar day from the
\* first to the last order day of df; an empty bin has nunique 0 and sum 0.
create_daily_orders_df(df) ==
    IF df = <<>> THEN <<>>
    ELSE LET lo == DateOf(MinTs(df))
             hi == DateOf(MaxTs(df))
         IN  [i \in 1..(hi - lo + 1) |->
                LET bin == RowsOnDay(df, lo + i - 1)
                IN  [order_date  |-> to_datetime(lo + i - 1),
                     order_count |-> Cardinality({r.order_id : r \in Range(bin)}),
                     revenue     |-> Sum([k \in DOMAIN bin |-> bin[k].total_price])]]

\* Mutant of SortDescending: sort_values() with its default, ascending.
RECURSIVE SortAscending(_)
SortAscending(s) ==
    IF s = <<>> THEN <<>>
    ELSE LET h == Head(s)
             rest == SortAscending(Tail(s))
             Below(r) == r.quantity_x < h.quantity_x
             NotBelow(r) == r.quantity_x >= h.quantity_x
         IN  SelectSeq(rest, Below) \o <<h>> \o SelectSeq(rest, NotBelow)

\* sort_values(ascending=False) of a short series: rows in non-increasing
\* order of quantity_x, equal quantities keeping their group order.
RECURSIVE SortDescending(_)
SortDescending(s) ==
    IF s = <<>> THEN <<>>
    ELSE LET h == Head(s)
             rest == SortDescending(Tail(s))
             Above(r) == r.quantity_x > h.quantity_x
             NotAbove(r) == r.quantity_x <= h.quantity_x
         IN  SelectSeq(rest, Above) \o <<h>> \o SelectSeq(rest, NotAbove)

create_sum_order_items_df(df) ==
    LET keys == KeysIn(ProductNames, {r.product_name : r \in Range(df)})
        Group(p) == LET Is(r) == r.product_name = p IN SelectSeq(df, Is)
        grouped == [i \in DOMAIN keys |->
                      LET g == Group(keys[i])
                      IN  [product_name |-> keys[i],
                           quantity_x   |-> Sum([k \in DOMAIN g |-> g[k].quantity_x])]]
    IN  SortDescending(grouped)

\* Mutant of create_bygender_df: count() instead of nunique(), which counts
\* a customer once per row.
create_bygender_df_count(df) ==
    LET keys == KeysIn(GenderNames, {r.gender : r \in Range(df)})
    IN  [i \in DOMAIN keys |->
            [gender         |-> keys[i],
             customer_count |-> Cardinality({k \in DOMAIN df :
                                               df[k].gender = keys[i]})]]

create_bygender_df(df) ==
    LET keys == KeysIn(GenderNames, {r.gender : r \in Range(df)})
    IN  [i \in DOMAIN keys |->
            [gender         |-> keys[i],
             customer_count |-> Cardinality({r.customer_id : r \in
                                   {q \in Range(df) : q.gender = keys[i]}})]]

\* pd.Categorical(values, ["Youth", "Adults", "Seniors"]): each value becomes
\* its position in the category list; the rows are not moved.
CategoryCode(a) ==
    CASE a = "Youth"   -> 0
      [] a = "Adults"  -> 1
      [] a = "Seniors" -> 2

create_byage_df(df) ==
    LET keys == KeysIn(AgeGroupNames, {r.age_group : r \in Range(df)})
    IN  [i \in DOMAIN keys |->
            [age_group      |-> keys[i],
             code           |-> CategoryCode(keys[i]),
             customer_count |-> Cardinality({r.customer_id : r \in
                                   {q \in Range(df) : q.age_group = keys[i]}})]]

create_bystate_df(df) ==
    LET keys == KeysIn(StateNames, {r.state : r \in Range(df)})
    IN  [i \in DOMAIN keys |->
            [state          |-> keys[i],
             customer_count |-> Cardinality({r.customer_id : r \in
                                   {q \in Range(df) : q.state = keys[i]}})]]

\* Mutant of recent_date: the latest day of the whole loaded table.
recent_date_dataset(df) == DateOf(MaxTs(all_df))

\* recent_date = df["order_date"].dt.date.max(): the latest day of df itself.
recent_date(df) == DateOf(MaxTs(df))

\* Mutant of create_rfm_df: the operands of the recency difference swapped.
create_rfm_df_swapped(df) ==
    LET keys == Ascending({r.customer_id : r \in Range(df)})
        Group(c) == LET Is(r) == r.customer_id = c IN SelectSeq(df, Is)
    IN  [i \in DOMAIN keys |->
            LET g == Group(keys[i])
            IN  [customer_id |-> keys[i],
                 frequency   |-> Cardinality({r.order_id : r \in Range(g)}),
                 monetary    |-> Sum([k \in DOMAIN g |-> g[k].total_price]),
                 recency     |-> DateOf(MaxTs(g)) - recent_date(df)]]

create_rfm_df(df) ==
    LET keys == Ascending({r.customer_id : r \in Range(df)})
        Group(c) == LET Is(r) == r.customer_id = c IN SelectSeq(df, Is)
    IN  [i \in DOMAIN keys |->
            LET g == Group(keys[i])
            IN  [customer_id |-> keys[i],
                 frequency   |-> Cardinality({r.order_id : r \in Range(g)}),
                 monetary    |-> Sum([k \in DOMAIN g |-> g[k].total_price]),
                 recency     |-> recent_date(df) - DateOf(MaxTs(g))]]

(* ------------------------------ Script -------------------------------- *)

\* st.date_input(min_value=min_date, max_value=max_date, value=[min_date,
\* max_date]): the dates the picker offers, and its value on the first run.
PickerDates(df) == DateOf(min_date(df))..DateOf(max_date(df))

DefaultPicker(df) == <<DateOf(min_date(df)), DateOf(max_date(df))>>

\* st.metric("Total Orders", daily_orders_df.order_count.sum())
TotalOrdersMetric(daily) == Sum([i \in DOMAIN daily |-> daily[i].order_count])

(* --------------------------- state machine ---------------------------- *)

\* The first run of the script: the table is loaded, the picker holds its
\* default, a complete range, and the script runs to its end.
InitFrom(R) ==
    /\ Loaded(all_df, R)
    /\ picker = DefaultPicker(all_df)
    /\ status = "rendered"
    /\ start_date = picker[1]
    /\ end_date = picker[2]
    /\ main_df = Filter(all_df, start_date, end_date)
    /\ daily_orders_df = create_daily_orders_df(main_df)
    /\ sum_order_items_df = create_sum_order_items_df(main_df)
    /\ bygender_df = create_bygender_df(main_df)
    /\ byage_df = create_byage_df(main_df)
    /\ bystate_df = create_bystate_df(main_df)
    /\ rfm_df = create_rfm_df(main_df)
    /\ total_orders = TotalOrdersMetric(daily_orders_df)

\* Mutant of Rerun: the state aggregate is computed from the unfiltered table.
Rerun_Unfiltered(v) ==
    /\ picker' = v
    /\ all_df' = all_df
    /\ IF Len(v) # 2
       THEN /\ status' = "error"
            /\ start_date' = <<>>
            /\ end_date' = <<>>
            /\ main_df' = <<>>
            /\ daily_orders_df' = <<>>
            /\ sum_order_items_df' = <<>>
            /\ bygender_df' = <<>>
            /\ byage_df' = <<>>
            /\ bystate_df' = <<>>
            /\ rfm_df' = <<>>
            /\ total_orders' = <<>>
       ELSE /\ status' = "rendered"
            /\ start_date' = v[1]
            /\ end_date' = v[2]
            /\ main_df' = Filter(all_df', start_date', end_date')
            /\ daily_orders_df' = create_daily_orders_df(main_df')
            /\ sum_order_items_df' = create_sum_order_items_df(main_df')
            /\ bygender_df' = create_bygender_df(main_df')
            /\ byage_df' = create_byage_df(main_df')
            /\ bystate_df' = create_bystate_df(all_df')
            /\ rfm_df' = create_rfm_df(main_df')
            /\ total_orders' = TotalOrdersMetric(daily_orders_df')

\* The picker's value becomes v and Streamlit runs the script again, from
\* its first line: the run reads the same file, so all_df is the same table.
\* "start_date, end_date = st.date_input(...)" unpacks the picker's value:
\* with other than two dates it raises ValueError and the run ends there,
\* with none of the later variables bound (<<>>).
Rerun(v) ==
    /\ picker' = v
    /\ all_df' = all_df
    /\ IF Len(v) # 2
       THEN /\ status' = "error"
            /\ start_date' = <<>>
            /\ end_date' = <<>>
            /\ main_df' = <<>>
            /\ daily_orders_df' = <<>>
            /\ sum_order_items_df' = <<>>
            /\ bygender_df' = <<>>
            /\ byage_df' = <<>>
            /\ bystate_df' = <<>>
            /\ rfm_df' = <<>>
            /\ total_orders' = <<>>
       ELSE /\ status' = "rendered"
            /\ start_date' = v[1]
            /\ end_date' = v[2]
            /\ main_df' = Filter(all_df', start_date', end_date')
            /\ daily_orders_df' = create_daily_orders_df(main_df')
            /\ sum_order_items_df' = create_sum_order_items_df(main_df')
            /\ bygender_df' = create_bygender_df(main_df')
            /\ byage_df' = create_byage_df(main_df')
            /\ bystate_df' = create_bystate_df(main_df')
            /\ rfm_df' = create_rfm_df(main_df')
            /\ total_orders' = TotalOrdersMetric(daily_orders_df')

\* The user clicks a first date of a new range: the picker holds that one
\* date until the range is completed.
SelectStart ==
    \E d \in PickerDates(all_df) : Rerun(<<d>>)

\* The user completes the range with a date not before the first one.
SelectEnd ==
    /\ Len(picker) = 1
    /\ \E d \in PickerDates(all_df) : d >= picker[1] /\ Rerun(<<picker[1], d>>)

Next == SelectStart \/ SelectEnd

(* --------------------------- specifications --------------------------- *)

Row(O, C, T, P, Q, M, G, A, S) ==
    [order_id : O, customer_id : C, order_date : T, product_name : P,
     quantity_x : Q, total_price : M, gender : G, age_group : A, state : S]

\* Customers' orders at any time of any day.
OrderRows ==
    Row({1}, CustomerIds, Timestamps, {"Shirt"}, {1}, {10},
        {"Female"}, {"Youth"}, {"NSW"})

\* Orders and their prices at any time of any day.
RevenueRows ==
    Row(OrderIds, {1}, Midnights, {"Shirt"}, {1}, Prices,
        {"Female"}, {"Youth"}, {"NSW"})

\* Products and quantities.
ProductRows ==
    Row({1}, {1}, Midnights, Range(ProductNames), Quantities, {10},
        {"Female"}, {"Youth"}, {"NSW"})

\* Customers and their gender.
GenderRows ==
    Row({1}, CustomerIds, Midnights, {"Shirt"}, {1}, {10},
        Range(GenderNames), {"Youth"}, {"NSW"})

\* Customers and their age group.
AgeRows ==
    Row({1}, CustomerIds, Midnights, {"Shirt"}, {1}, {10},
        {"Female"}, Range(AgeGroupNames), {"NSW"})

\* Orders of customers, each at midnight of its day.
RfmRows ==
    Row(OrderIds, CustomerIds, Midnights, {"Shirt"}, {1}, {10},
        {"Female"}, {"Youth"}, {"NSW"})

Init == InitFrom(OrderRows)

Spec == Init /\ [][Next]_vars

InitRevenue == InitFrom(RevenueRows)

SpecRevenue == InitRevenue /\ [][Next]_vars

InitProduct == InitFrom(ProductRows)

SpecProduct == InitProduct /\ [][Next]_vars

InitGender == InitFrom(GenderRows)

SpecGender == InitGender /\ [][Next]_vars

InitRfm == InitFrom(RfmRows)

SpecRfm == InitRfm /\ [][Next]_vars

InitAge == InitFrom(AgeRows)

SpecAge == InitAge /\ [][Next]_vars

(* ------------------------------- claims ------------------------------- *)

Rendered == status = "rendered"

CustomersOf(df) == {r.customer_id : r \in Range(df)}

OrdersOf(df) == {r.order_id : r \in Range(df)}

DaysOf(df) == {DateOf(r.order_date) : r \in Range(df)}

\* The rows of df whose order date falls on a calendar day in lo..hi.
RowsWithinDays(df, lo, hi) ==
    LET Within(r) == lo <= DateOf(r.order_date) /\ DateOf(r.order_date) <= hi
    IN  SelectSeq(df, Within)

\* C1: the filter is inclusive at both ends by calendar day: after every
\* completed run main_df holds exactly the rows of all_df whose order date
\* falls on a day d with start_date <= d <= end_date, at any time of day.
C1_FilterInclusiveByDay ==
    Rendered => main_df = RowsWithinDays(all_df, start_date, end_date)

\* C2: after any sequence of date-range changes, the filtered table is the
\* filter of the loaded table by the range of the current run, and each of
\* the six aggregate tables and the Total Orders metric is the aggregate of
\* that filtered table, not of all_df nor of an earlier run's table.
C2_AggregatesFromFiltered ==
    Rendered =>
        /\ start_date = picker[1] /\ end_date = picker[2]
        /\ main_df = Filter(all_df, start_date, end_date)
        /\ daily_orders_df = create_daily_orders_df(main_df)
        /\ sum_order_items_df = create_sum_order_items_df(main_df)
        /\ bygender_df = create_bygender_df(main_df)
        /\ byage_df = create_byage_df(main_df)
        /\ bystate_df = create_bystate_df(main_df)
        /\ rfm_df = create_rfm_df(main_df)
        /\ total_orders = TotalOrdersMetric(daily_orders_df)

\* C2 witness: a run after a range change whose filtered table is a proper,
\* non-empty part of the loaded table and holds fewer customers than it.
C2_Witness ==
    /\ Rendered
    /\ picker # DefaultPicker(all_df)
    /\ main_df # <<>>
    /\ Len(main_df) < Len(all_df)
    /\ CustomersOf(main_df) # CustomersOf(all_df)

\* C3: the Total Orders metric (the sum of order_count over the daily
\* table) equals the number of distinct order ids of the filtered table,
\* also when rows of one order id fall on different calendar days.
C3_TotalOrdersIsDistinctOrders ==
    Rendered => total_orders = Cardinality(OrdersOf(main_df))

\* Whether the filtered table is the example of C4: one order on day 1 with
\* total_price 10 and another on day 3 with total_price 20.
IsTwoDayExample(df) ==
    /\ Len(df) = 2
    /\ df[1].order_id # df[2].order_id
    /\ DateOf(df[1].order_date) = 1 /\ df[1].total_price = 10
    /\ DateOf(df[2].order_date) = 3 /\ df[2].total_price = 20

\* C4 as claimed: the daily table has exactly one row per calendar day on
\* which the filtered table has an order; for the example, two rows with
\* counts 1, 1 and revenue 10, 20.
C4_OneRowPerOrderDay ==
    Rendered =>
        /\ Len(daily_orders_df) = Cardinality(DaysOf(main_df))
        /\ IsTwoDayExample(main_df) =>
              /\ Len(daily_orders_df) = 2
              /\ daily_orders_df[1].order_count = 1
              /\ daily_orders_df[1].revenue = 10
              /\ daily_orders_df[2].order_count = 1
              /\ daily_orders_df[2].revenue = 20

\* C4 as amended: the daily table has exactly one row per calendar day from
\* the first to the last order day of the filtered table, in ascending
\* order; a row's count is the number of distinct order ids of that day and
\* its revenue the sum of their total_price, both 0 on a day without orders;
\* an empty filtered table gives an empty daily table.  For the example:
\* three rows with counts 1, 0, 1 and revenue 10, 0, 20.
C4_OneRowPerDayOfSpan ==
    Rendered =>
        /\ main_df = <<>> => daily_orders_df = <<>>
        /\ main_df # <<>> =>
              LET lo == SetMin(DaysOf(main_df))
                  hi == SetMax(DaysOf(main_df))
              IN  /\ Len(daily_orders_df) = hi - lo + 1
                  /\ \A i \in DOMAIN daily_orders_df :
                        LET d == lo + i - 1
                            on == {k \in DOMAIN main_df :
                                     DateOf(main_df[k].order_date) = d}
                            paid == [k \in DOMAIN main_df |->
                                       IF k \in on THEN main_df[k].total_price
                                       ELSE 0]
                        IN  /\ daily_orders_df[i].order_date = to_datetime(d)
                            /\ daily_orders_df[i].order_count =
                                 Cardinality({main_df[k].order_id : k \in on})
                            /\ daily_orders_df[i].revenue = Sum(paid)
                            /\ on = {} => /\ daily_orders_df[i].order_count = 0
                                          /\ daily_orders_df[i].revenue = 0
        /\ IsTwoDayExample(main_df) =>
              /\ Len(daily_orders_df) = 3
              /\ daily_orders_df[1].order_count = 1
              /\ daily_orders_df[1].revenue = 10
              /\ daily_orders_df[2].order_count = 0
              /\ daily_orders_df[2].revenue = 0
              /\ daily_orders_df[3].order_count = 1
              /\ daily_orders_df[3].revenue = 20

\* C4 witness: the example's table has been filtered and aggregated, and
\* the daily table has a row for the day between the two orders.
C4_Witness ==
    /\ Rendered
    /\ IsTwoDayExample(main_df)
    /\ Len(daily_orders_df) = 3
    /\ daily_orders_df[2].order_count = 0

\* The latest calendar day on which customer c has an order in df.
LastDayOf(df, c) ==
    SetMax({DateOf(r.order_date) : r \in {q \in Range(df) : q.customer_id = c}})

\* C5 as claimed: for every date range, each RFM row's recency is the number
\* of days from the customer's latest order day in the filtered table to the
\* latest order day of the whole loaded table.
C5_RecencyFromDatasetMax ==
    Rendered =>
        \A i \in DOMAIN rfm_df :
            rfm_df[i].recency =
                DateOf(max_date(all_df)) - LastDayOf(main_df, rfm_df[i].customer_id)

\* C5 as amended: the RFM table has one row per customer of the filtered
\* table, and each row's recency is the number of days from the customer's
\* latest order day in the filtered table to the latest order day of the
\* filtered table.
C5_RecencyFromFilteredMax ==
    Rendered =>
        /\ {rfm_df[i].customer_id : i \in DOMAIN rfm_df} = CustomersOf(main_df)
        /\ Len(rfm_df) = Cardinality(CustomersOf(main_df))
        /\ \A i \in DOMAIN rfm_df :
              rfm_df[i].recency =
                  SetMax(DaysOf(main_df)) - LastDayOf(main_df, rfm_df[i].customer_id)

\* C5 witness: a range that ends before the latest order day of the loaded
\* table, with a customer whose recency is positive.
C5_Witness ==
    /\ Rendered
    /\ end_date < DateOf(max_date(all_df))
    /\ \E i \in DOMAIN rfm_df : rfm_df[i].recency > 0

\* C6: the rows of the age table handed to the bar chart are in the order
\* Youth, Adults, Seniors (ascending category position).
C6_AgeRowsInCategoryOrder ==
    Rendered =>
        \A i, j \in DOMAIN byage_df :
            i < j => byage_df[i].code < byage_df[j].code

\* C7: for a non-empty filtered table, no RFM row has a negative recency and
\* the row of every customer who placed the most recent order has recency 0.
C7_LatestCustomerRecencyZero ==
    (Rendered /\ main_df # <<>>) =>
        /\ \A i \in DOMAIN rfm_df : rfm_df[i].recency >= 0
        /\ \A r \in Range(main_df) :
              r.order_date = MaxTs(main_df) =>
                  \E i \in DOMAIN rfm_df :
                      /\ rfm_df[i].customer_id = r.customer_id
                      /\ rfm_df[i].recency = 0

\* C7 witness: two customers, the one with the most recent order at
\* recency 0 and the other at a positive recency.
C7_Witness ==
    /\ Rendered
    /\ Len(rfm_df) = 2
    /\ \E i, j \in DOMAIN rfm_df :
          rfm_df[i].recency = 0 /\ rfm_df[j].recency > 0

\* The genders recorded for customer c in df.
GendersOf(df, c) == {r.gender : r \in {q \in Range(df) : q.customer_id = c}}

\* The (customer, gender) pairs beyond each customer's first.
ExtraGenderPairs(df) ==
    LET cs == Ascending(CustomersOf(df))
    IN  Sum([i \in DOMAIN cs |-> Cardinality(GendersOf(df, cs[i])) - 1])

\* C8: the sum of customer_count over the gender table equals the number of
\* distinct customers of the filtered table plus the number of extra
\* (customer, gender) pairs: it equals the number of distinct customers when
\* every customer has a single gender and exceeds it otherwise.
C8_GenderCountSum ==
    Rendered =>
        LET total == Sum([i \in DOMAIN bygender_df |->
                            bygender_df[i].customer_count])
            distinct == Cardinality(CustomersOf(main_df))
        IN  /\ total = distinct + ExtraGenderPairs(main_df)
            /\ (\A c \in CustomersOf(main_df) :
                    Cardinality(GendersOf(main_df, c)) = 1) => total = distinct
            /\ (\E c \in CustomersOf(main_df) :
                    Cardinality(GendersOf(main_df, c)) > 1) => total > distinct

\* C8 witness: two customers, one of them recorded with two genders, so that
\* the counts sum to 3.
C8_Witness ==
    /\ Rendered
    /\ Cardinality(CustomersOf(main_df)) = 2
    /\ \E c \in CustomersOf(main_df) : Cardinality(GendersOf(main_df, c)) = 2
    /\ Sum([i \in DOMAIN bygender_df |-> bygender_df[i].customer_count]) = 3

\* C9: the per-product quantities of the product table sum to the sum of the
\* quantity column of the filtered table, the table has one row per product
\* of the filtered table, and its rows are in non-increasing order of
\* quantity.
C9_ProductVolume ==
    Rendered =>
        /\ Sum([i \in DOMAIN sum_order_items_df |->
                  sum_order_items_df[i].quantity_x])
             = Sum([k \in DOMAIN main_df |-> main_df[k].quantity_x])
        /\ Len(sum_order_items_df)
             = Cardinality({r.product_name : r \in Range(main_df)})
        /\ \A i, j \in DOMAIN sum_order_items_df :
              i < j => sum_order_items_df[i].quantity_x
                         >= sum_order_items_df[j].quantity_x

\* C9 witness: a product with two rows, and a table whose later product (in
\* name order) has the larger total, so that the sort moved it first.
C9_Witness ==
    /\ Rendered
    /\ Len(main_df) = 3
    /\ Len(sum_order_items_df) = 2
    /\ sum_order_items_df[1].product_name = "Trousers"
    /\ sum_order_items_df[1].quantity_x > sum_order_items_df[2].quantity_x

\* C10: every run of the script, whatever the picker's state, gets a start
\* and an end date with min date <= start <= end <= max date and renders
\* without error.
C10_EveryRunGetsCompleteRange ==
    /\ Len(picker) = 2
    /\ Rendered
    /\ DateOf(min_date(all_df)) <= start_date
    /\ start_date <= end_date
    /\ end_date <= DateOf(max_date(all_df))

=============================================================================
